---- MODULE Spec2Model ----
(***************************************************************************)
(* Model of app.py, the Excel sheet unifier ("Unificador de hojas Excel"). *)
(*                                                                         *)
(* Strings are sequences of symbols.  A symbol is a character or a block   *)
(* of characters that the program's regular expressions and case folding   *)
(* treat as a unit ("url", "http://", "/VerNoticia/").  The tables below   *)
(* give, for each symbol, what str.lower, NFKD decomposition and the       *)
(* character classes of the code do to it.                                 *)
(***************************************************************************)
EXTENDS Integers, Sequences, FiniteSets, TLC

VARIABLES files, mapping, xml_bytes, df, locals, merged, pc, mappings_dir, flashed, request,
          session, history, processed, response, workers, canon_in, canon_out, extracted

vars == <<files, mapping, xml_bytes, df, locals, merged, pc, mappings_dir, flashed, request,
          session, history, processed, response, workers, canon_in, canon_out, extracted>>

----------------------------------------------------------------------------
(* Bounds of the model *)

MaxSheets == 2

MaxFiles == 2

MaxRecords == 2

MaxJoinRows == 2

MaxLen == 4

MaxNoticias == 3

----------------------------------------------------------------------------
(* Generic sequence and dictionary helpers (Python list / dict semantics) *)

InSeq(x, s) == \E i \in 1..Len(s) : s[i] = x

\* list.index(x): position of the first occurrence, 0 when absent (ValueError)
IndexOf(s, x) ==
  IF InSeq(x, s) THEN CHOOSE i \in 1..Len(s) : s[i] = x /\ \A j \in 1..(i-1) : s[j] # x
  ELSE 0

\* dict.get(k, default)
Get(m, k, default) == IF k \in DOMAIN m THEN m[k] ELSE default

RECURSIVE Concat(_)
Concat(ss) == IF ss = <<>> THEN <<>> ELSE Head(ss) \o Concat(Tail(ss))

SeqsUpTo(S, n) == UNION {[1..k -> S] : k \in 1..n}

----------------------------------------------------------------------------
(* Symbol tables *)

Whitespace == {" "}

\* str.lower() on one symbol
LowerSym(c) ==
  CASE c = "F" -> "f"
    [] c = "E'" -> "e'"
    [] c = "URL" -> "url"
    [] c = "Url" -> "url"
    [] c = "Noticia" -> "noticia"
    [] c = "LP" -> "lp"
    [] c = "Simbiu" -> "simbiu"
    [] c = "XML" -> "xml"
    [] OTHER -> c

\* NFKD decomposition with the combining marks dropped, on one symbol
BaseSym(c) == IF c = "e'" THEN "e" ELSE c

\* the symbols matched by [a-z0-9] (blocks of such characters included)
AZ09 == {"a", "b", "d", "e", "f", "r", "s", "x", "1", "2", "7", "0",
         "url", "noticia", "texto", "codigo", "link", "archivo", "origen",
         "col", "lp", "simbiu", "default", "otro", "xlsx"}

Digits == {"0", "1", "2", "7"}

----------------------------------------------------------------------------
(* canonicalize / slugify *)

RECURSIVE LStrip(_, _)
LStrip(s, chars) ==
  IF s # <<>> /\ Head(s) \in chars THEN LStrip(Tail(s), chars) ELSE s

RECURSIVE RStrip(_, _)
RStrip(s, chars) ==
  IF s # <<>> /\ s[Len(s)] \in chars THEN RStrip(SubSeq(s, 1, Len(s) - 1), chars) ELSE s

Strip(s, chars) == RStrip(LStrip(s, chars), chars)

\* re.sub(r"__+", "_", text)
RECURSIVE CollapseUnderscores(_)
CollapseUnderscores(s) ==
  IF Len(s) < 2 THEN s
  ELSE IF s[1] = "_" /\ s[2] = "_" THEN CollapseUnderscores(Tail(s))
  ELSE <<Head(s)>> \o CollapseUnderscores(Tail(s))

\* mutant: the runs of underscores collapsed before the replacement makes them
canonicalize_collapse_first(text) ==
  LET t1 == Strip(text, Whitespace)
      t2 == CollapseUnderscores([i \in 1..Len(t1) |-> BaseSym(LowerSym(t1[i]))])
      t3 == [i \in 1..Len(t2) |-> IF t2[i] \in AZ09 THEN t2[i] ELSE "_"]
  IN Strip(t3, {"_"})

canonicalize(text) ==
  LET t1 == Strip(text, Whitespace)
      t2 == [i \in 1..Len(t1) |-> BaseSym(LowerSym(t1[i]))]
      t3 == [i \in 1..Len(t2) |-> IF t2[i] \in AZ09 THEN t2[i] ELSE "_"]
  IN Strip(CollapseUnderscores(t3), {"_"})

slugify(name) == IF canonicalize(name) # <<>> THEN canonicalize(name) ELSE <<"default">>

----------------------------------------------------------------------------
(* Cell values.  k is the Python type of the value: "str", "num" (int or   *)
(* float), "none" (None) or "nan" (the missing value pandas fills in).     *)

StrV(s) == [k |-> "str", s |-> s]

NumV(s) == [k |-> "num", s |-> s]

NoneV == [k |-> "none", s |-> <<>>]

NaN == [k |-> "nan", s |-> <<>>]

EmptyStr == StrV(<<>>)

\* bool(v)
Truthy(v) ==
  CASE v.k = "none" -> FALSE
    [] v.k = "str" -> v.s # <<>>
    [] v.k = "num" -> v.s # <<"0">>
    [] OTHER -> TRUE

\* str(v), also what an f-string puts for {v}
FormatV(v) ==
  CASE v.k = "none" -> <<"None">>
    [] v.k = "nan" -> <<"nan">>
    [] OTHER -> v.s

NoLink == [set |-> FALSE, target |-> <<>>]

LinkTo(t) == [set |-> TRUE, target |-> t]

Cell(v, h) == [value |-> v, hyperlink |-> h]

\* a parsed DataFrame, or the exception that left the function
DataFrame(columns, rows) == [kind |-> "df", columns |-> columns, rows |-> rows, exc |-> ""]

Raised(exc) == [kind |-> "error", columns |-> <<>>, rows |-> <<>>, exc |-> exc]

NoResult == [kind |-> "none", columns |-> <<>>, rows |-> <<>>, exc |-> ""]

\* the form of the request handled last: its action and the names it carries
NoRequest == [action |-> "none", name |-> <<>>, src |-> <<>>, doc |-> [kind |-> "empty", noticias |-> <<>>]]

\* the response of the request handled last
NoResponse == [kind |-> "none", to |-> "", body |-> <<>>]

\* redirect(url_for(to))
Redirect(to) == [kind |-> "redirect", to |-> to, body |-> <<>>]

\* render_template_string(template, ...) with the data it shows
Page(template, body) == [kind |-> "page", to |-> template, body |-> body]

\* send_file(...) with the content sent
SendFile(download_name, body) == [kind |-> "file", to |-> download_name, body |-> body]

\* abort(code), or the 500 answer to an exception no handler caught
Abort(code) == [kind |-> "abort", to |-> code, body |-> <<>>]

\* the session: a dictionary, the keys it lacks being absent from its domain
NoSession == << >>

\* the session of a user who logged in and uploaded nothing yet
LoggedInSession == ("user" :> "AnalisisLP")

\* no web state: nobody logged in, nothing processed
WebIdle ==
  /\ session = NoSession
  /\ history = <<>>
  /\ processed = << >>
  /\ response = NoResponse
  /\ workers = <<>>

\* no pure function applied yet
PureIdle ==
  /\ canon_in = <<>>
  /\ canon_out = <<>>
  /\ extracted = NoResult

----------------------------------------------------------------------------
(* workbook_columns: the column names the mapping form shows and posts *)

DigitSym(d) ==
  CASE d = 0 -> "0" [] d = 1 -> "1" [] d = 2 -> "2" [] d = 3 -> "3" [] d = 4 -> "4"
    [] d = 5 -> "5" [] d = 6 -> "6" [] d = 7 -> "7" [] d = 8 -> "8" [] d = 9 -> "9"

\* the decimal digits an f-string puts for an int
RECURSIVE FormatInt(_)
FormatInt(n) == IF n < 10 THEN <<DigitSym(n)>> ELSE FormatInt(n \div 10) \o <<DigitSym(n % 10)>>

\* c.value or f"col_{i+1}", i + 1 being the 1-indexed position of the cell
column_name(value, position) ==
  IF Truthy(value) THEN value ELSE StrV(<<"col", "_">> \o FormatInt(position))

\* the header names of every sheet, in workbook order
workbook_columns(wb) ==
  [i \in 1..Len(wb.worksheets) |->
     [idx \in 1..Len(wb.worksheets[i].header) |->
        column_name(wb.worksheets[i].header[idx], idx)]]

----------------------------------------------------------------------------
(* unify_workbook *)

\* `orig or ""`
OrEmpty(orig) == IF Truthy(orig) THEN orig ELSE EmptyStr

\* the destination of one header, as the header pass computes it (line 192)
header_dest(orig, m) == Get(m, orig, Get(m, canonicalize(orig), canonicalize(orig)))

\* mutant: the canonical entry looked up before the raw one
row_dest_canonical_first(orig, m) ==
  Get(m, canonicalize(orig), Get(m, orig, canonicalize(orig)))

\* mutant: the row pass ignores the entry under the canonical header
row_dest_raw_only(orig, m) == Get(m, orig, canonicalize(orig))

\* the destination of one header, as the row pass computes it (line 200)
row_dest(orig, m) == Get(m, orig, Get(m, canonicalize(orig), canonicalize(orig)))

\* all header cells, sheet by sheet in workbook order, left to right
all_headers(wb) == Concat([i \in 1..Len(wb.worksheets) |-> wb.worksheets[i].header])

\* canonicalize() is applied to every header; a non-string one has no .strip()
headers_raise(wb) ==
  \E i \in 1..Len(all_headers(wb)) : OrEmpty(all_headers(wb)[i]).k # "str"

\* mutant: every destination appended, seen before or not
RECURSIVE header_pass_no_dedup(_, _, _)
header_pass_no_dedup(origs, m, headers_final) ==
  IF origs = <<>> THEN headers_final
  ELSE header_pass_no_dedup(Tail(origs), m,
                            Append(headers_final, header_dest(OrEmpty(Head(origs)).s, m)))

RECURSIVE header_pass(_, _, _)
header_pass(origs, m, headers_final) ==
  IF origs = <<>> THEN headers_final
  ELSE LET dest == header_dest(OrEmpty(Head(origs)).s, m)
       IN header_pass(Tail(origs), m,
                      IF InSeq(dest, headers_final) THEN headers_final
                      ELSE Append(headers_final, dest))

headers_final_of(wb, m) == header_pass(all_headers(wb), m, <<>>)

idx2dest(ws, m) ==
  [idx \in 1..Len(ws.header) |-> row_dest(OrEmpty(ws.header[idx]).s, m)]

\* =HYPERLINK("target", "display")
HYPERLINK(target, display) ==
  <<"=HYPERLINK(\"">> \o target \o <<"\", \"">> \o display \o <<"\")">>

\* re.match(r"https?://", s)
IsHttp(s) == s # <<>> /\ Head(s) \in {"http://", "https://"}

\* mutant: a bare URL without hyperlink passes through unchanged
cell_value_no_bare_url(cell) ==
  IF cell.hyperlink.set
    THEN StrV(HYPERLINK(cell.hyperlink.target, FormatV(cell.value)))
  ELSE cell.value

cell_value(cell) ==
  IF cell.hyperlink.set
    THEN StrV(HYPERLINK(cell.hyperlink.target, FormatV(cell.value)))
  ELSE IF cell.value.k = "str" /\ IsHttp(cell.value.s)
    THEN StrV(HYPERLINK(cell.value.s, cell.value.s))
  ELSE cell.value

\* idx2dest.get(idx), <<>> standing for both None and ""
dest_at(i2d, idx) == IF idx \in DOMAIN i2d THEN i2d[idx] ELSE <<>>

\* mutant: the new row starts as None cells
empty_row_none(headers_final) == [j \in 1..Len(headers_final) |-> NoneV]

empty_row(headers_final) == [j \in 1..Len(headers_final) |-> EmptyStr]

\* mutant: a destination written once is not written again in the same row
RECURSIVE fill_row_first_wins(_, _, _, _, _)
fill_row_first_wins(row, idx, i2d, headers_final, new_row) ==
  IF idx > Len(row) THEN new_row
  ELSE LET dest == dest_at(i2d, idx)
       IN IF dest = <<>> \/ \E o \in 1..(idx - 1) : dest_at(i2d, o) = dest
            THEN fill_row_first_wins(row, idx + 1, i2d, headers_final, new_row)
            ELSE fill_row_first_wins(row, idx + 1, i2d, headers_final,
                          [new_row EXCEPT ![IndexOf(headers_final, dest)] = cell_value(row[idx])])

RECURSIVE fill_row(_, _, _, _, _)
fill_row(row, idx, i2d, headers_final, new_row) ==
  IF idx > Len(row) THEN new_row
  ELSE LET dest == dest_at(i2d, idx)
       IN IF dest = <<>>
            THEN fill_row(row, idx + 1, i2d, headers_final, new_row)
            ELSE fill_row(row, idx + 1, i2d, headers_final,
                          [new_row EXCEPT ![IndexOf(headers_final, dest)] = cell_value(row[idx])])

\* headers_final.index(dest) raises ValueError when dest is absent
row_raises(row, i2d, headers_final) ==
  \E idx \in 1..Len(row) :
    dest_at(i2d, idx) # <<>> /\ ~InSeq(dest_at(i2d, idx), headers_final)

sheet_rows(ws, m, headers_final) ==
  [r \in 1..Len(ws.rows) |->
     fill_row(ws.rows[r], 1, idx2dest(ws, m), headers_final, empty_row(headers_final))]

sheet_raises(ws, m, headers_final) ==
  \E r \in 1..Len(ws.rows) : row_raises(ws.rows[r], idx2dest(ws, m), headers_final)

all_rows_of(wb, m, headers_final) ==
  Concat([i \in 1..Len(wb.worksheets) |-> sheet_rows(wb.worksheets[i], m, headers_final)])

unify_workbook(xlsx_bytes, m) ==
  IF ~xlsx_bytes.ok THEN Raised("BadZipFile")
  ELSE IF headers_raise(xlsx_bytes) THEN Raised("AttributeError")
  ELSE LET headers_final == headers_final_of(xlsx_bytes, m)
       IN IF \E i \in 1..Len(xlsx_bytes.worksheets) :
                sheet_raises(xlsx_bytes.worksheets[i], m, headers_final)
            THEN Raised("ValueError")
            ELSE DataFrame(headers_final, all_rows_of(xlsx_bytes, m, headers_final))

\* Path(name).stem: the last path component without its last suffix
stem(name) ==
  LET seps == {i \in 1..Len(name) : name[i] = "/"}
      start == IF seps = {} THEN 1 ELSE (CHOOSE i \in seps : \A j \in seps : j <= i) + 1
      base == SubSeq(name, start, Len(name))
      dots == {i \in 1..Len(base) : base[i] = "."}
      last == IF dots = {} THEN 0 ELSE CHOOSE i \in dots : \A j \in dots : j <= i
  IN IF 1 < last /\ last < Len(base) THEN SubSeq(base, 1, last - 1) ELSE base

archivo_origen == <<"archivo", "_", "origen">>

\* df["archivo_origen"] = value: overwrite the column when present, else append it
set_column(frame, col, value) ==
  IF InSeq(col, frame.columns)
    THEN DataFrame(frame.columns,
                   [r \in 1..Len(frame.rows) |->
                      [frame.rows[r] EXCEPT ![IndexOf(frame.columns, col)] = value]])
    ELSE DataFrame(Append(frame.columns, col),
                   [r \in 1..Len(frame.rows) |-> Append(frame.rows[r], value)])

RECURSIVE union_columns(_, _)
union_columns(cols, acc) ==
  IF cols = <<>> THEN acc
  ELSE union_columns(Tail(cols),
                     IF InSeq(Head(cols), acc) THEN acc ELSE Append(acc, Head(cols)))

\* one frame's rows laid out on the columns of the concatenation
reindex(frame, columns) ==
  [r \in 1..Len(frame.rows) |->
     [j \in 1..Len(columns) |->
        IF InSeq(columns[j], frame.columns)
          THEN frame.rows[r][IndexOf(frame.columns, columns[j])]
          ELSE NaN]]

\* pd.concat(merged, ignore_index=True)
concat(frames) ==
  LET columns == union_columns(Concat([i \in 1..Len(frames) |-> frames[i].columns]), <<>>)
  IN DataFrame(columns, Concat([i \in 1..Len(frames) |-> reindex(frames[i], columns)]))

\* headers_final and the idx2dest of every sheet when unify_workbook ends
unify_locals(xlsx_bytes, m) ==
  IF ~xlsx_bytes.ok \/ headers_raise(xlsx_bytes)
    THEN [headers_final |-> <<>>, idx2dest |-> <<>>]
    ELSE [headers_final |-> headers_final_of(xlsx_bytes, m),
          idx2dest |-> [i \in 1..Len(xlsx_bytes.worksheets) |->
                          idx2dest(xlsx_bytes.worksheets[i], m)]]

\* mutant: every frame stamped with the first file's stem
unify_files_first_name(fs, m) ==
  LET frames == [i \in 1..Len(fs) |-> unify_workbook(fs[i].data, m)]
      failed == {i \in 1..Len(fs) : frames[i].kind = "error"}
  IN IF failed # {}
       THEN frames[CHOOSE i \in failed : \A j \in failed : i <= j]
       ELSE IF Len(fs) = 0 THEN DataFrame(<<>>, <<>>)
       ELSE concat([i \in 1..Len(fs) |->
                      set_column(frames[i], archivo_origen, StrV(stem(fs[1].name)))])

unify_files(fs, m) ==
  LET frames == [i \in 1..Len(fs) |-> unify_workbook(fs[i].data, m)]
      failed == {i \in 1..Len(fs) : frames[i].kind = "error"}
  IN IF failed # {}
       THEN frames[CHOOSE i \in failed : \A j \in failed : i <= j]
       ELSE IF Len(fs) = 0 THEN DataFrame(<<>>, <<>>)
       ELSE concat([i \in 1..Len(fs) |->
                      set_column(frames[i], archivo_origen, StrV(stem(fs[i].name)))])

----------------------------------------------------------------------------
(* Text of the XML document (the simbiu flow) *)

\* the bytes of the uploaded document: none, not well-formed, or the <noticia>
\* records of a well-formed one
NoXml == [kind |-> "empty", noticias |-> <<>>]

Malformed == [kind |-> "malformed", noticias |-> <<>>]

Xml(noticias) == [kind |-> "xml", noticias |-> noticias]

\* CODE_RE = /(?:index/1|VerNoticia)/(\d+)
CodePrefix == {"/index/1/", "/VerNoticia/"}

RECURSIVE leading_digits(_)
leading_digits(s) ==
  IF s # <<>> /\ Head(s) \in Digits THEN <<Head(s)>> \o leading_digits(Tail(s)) ELSE <<>>

\* CODE_RE.search(s): the digits of the first match, found = FALSE without match
code_search(s) ==
  LET hits == {i \in 1..(Len(s) - 1) : s[i] \in CodePrefix /\ s[i + 1] \in Digits}
  IN IF hits = {} THEN [found |-> FALSE, code |-> <<>>]
     ELSE LET i == CHOOSE h \in hits : \A o \in hits : h <= o
          IN [found |-> TRUE, code |-> leading_digits(SubSeq(s, i + 1, Len(s)))]

codigo == <<"codigo">>

texto == <<"texto">>

codigo_link == <<"codigo", "_", "link">>

url_noticia == <<"url", "_", "noticia">>

\* the {codigo, texto} rows of the records whose Url_Noticia holds a code
RECURSIVE noticia_rows(_)
noticia_rows(noticias) ==
  IF noticias = <<>> THEN <<>>
  ELSE LET n == Head(noticias)
           m == code_search(n.Url_Noticia)
       IN (IF m.found
             THEN << <<StrV(m.code), StrV(Strip(n.FullText, Whitespace))>> >>
             ELSE <<>>) \o noticia_rows(Tail(noticias))

\* mutant: every row kept, duplicates included
drop_duplicates_none(rows, j, seen) == rows

\* DataFrame.drop_duplicates(col): the first row of every value is kept
RECURSIVE drop_duplicates(_, _, _)
drop_duplicates(rows, j, seen) ==
  IF rows = <<>> THEN <<>>
  ELSE IF Head(rows)[j] \in seen THEN drop_duplicates(Tail(rows), j, seen)
  ELSE <<Head(rows)>> \o drop_duplicates(Tail(rows), j, seen \cup {Head(rows)[j]})

\* mutant: the records are not deduplicated
build_text_df_all(xml) ==
  IF xml.kind # "xml" THEN Raised("ParseError")
  ELSE IF noticia_rows(xml.noticias) = <<>> THEN DataFrame(<<>>, <<>>)
  ELSE DataFrame(<<codigo, texto>>, noticia_rows(xml.noticias))

\* pd.DataFrame([]) has no columns, and drop_duplicates returns an empty frame as it is
build_text_df(xml) ==
  IF xml.kind # "xml" THEN Raised("ParseError")
  ELSE IF noticia_rows(xml.noticias) = <<>> THEN DataFrame(<<>>, <<>>)
  ELSE DataFrame(<<codigo, texto>>, drop_duplicates(noticia_rows(xml.noticias), 1, {}))

\* the first column whose canonical name is url_noticia, 0 for None
col_url_of(frame) ==
  LET hits == {j \in 1..Len(frame.columns) : canonicalize(frame.columns[j]) = url_noticia}
  IN IF hits = {} THEN 0 ELSE CHOOSE j \in hits : \A o \in hits : j <= o

\* df[col].astype(str).str.extract(CODE_RE, expand=False), NaN without match
extract_codes(frame, j) ==
  [r \in 1..Len(frame.rows) |->
     LET m == code_search(FormatV(frame.rows[r][j]))
     IN IF m.found THEN StrV(m.code) ELSE NaN]

\* df[col] = values, one value per row
assign_column(frame, col, values) ==
  IF InSeq(col, frame.columns)
    THEN DataFrame(frame.columns,
                   [r \in 1..Len(frame.rows) |->
                      [frame.rows[r] EXCEPT ![IndexOf(frame.columns, col)] = values[r]]])
    ELSE DataFrame(Append(frame.columns, col),
                   [r \in 1..Len(frame.rows) |-> Append(frame.rows[r], values[r])])

\* the names of a merge: a name both sides have gets the side's suffix
suffixed(columns, others, suffix) ==
  [j \in 1..Len(columns) |->
     IF InSeq(columns[j], others) THEN columns[j] \o <<suffix>> ELSE columns[j]]

\* left.merge(right, left_on=, right_on=, how="left"): the left rows in their
\* order, each once per right row of its key (in the right's order), and once
\* with missing values when no right row has the key
merge_left(left, right, left_on, right_on) ==
  IF ~InSeq(left_on, left.columns) \/ ~InSeq(right_on, right.columns)
    THEN Raised("KeyError")
  ELSE LET lk == IndexOf(left.columns, left_on)
           rk == IndexOf(right.columns, right_on)
           match(r) == {q \in 1..Len(right.rows) : right.rows[q][rk] = left.rows[r][lk]}
           nth(r, i) == CHOOSE q \in match(r) : Cardinality({o \in match(r) : o < q}) = i - 1
       IN DataFrame(suffixed(left.columns, right.columns, "_x")
                      \o suffixed(right.columns, left.columns, "_y"),
                    Concat([r \in 1..Len(left.rows) |->
                              IF match(r) = {}
                                THEN << left.rows[r] \o [j \in 1..Len(right.columns) |-> NaN] >>
                                ELSE [i \in 1..Cardinality(match(r)) |->
                                        left.rows[r] \o right.rows[nth(r, i)]]]))

\* df.drop(columns=names, inplace=True): KeyError when a name is no column
drop_columns(frame, names) ==
  IF \E n \in names : ~InSeq(n, frame.columns) THEN Raised("KeyError")
  ELSE LET keep == {j \in 1..Len(frame.columns) : frame.columns[j] \notin names}
           nth(i) == CHOOSE j \in keep : Cardinality({o \in keep : o < j}) = i - 1
       IN DataFrame([i \in 1..Cardinality(keep) |-> frame.columns[nth(i)]],
                    [r \in 1..Len(frame.rows) |->
                       [i \in 1..Cardinality(keep) |-> frame.rows[r][nth(i)]]])

add_text_column(frame, xml) ==
  IF xml.kind = "empty" THEN frame
  ELSE IF col_url_of(frame) = 0 THEN frame
  ELSE LET text_df == build_text_df(xml)
       IN IF text_df.kind = "error" THEN text_df
          ELSE LET with_code == assign_column(frame, codigo_link,
                                              extract_codes(frame, col_url_of(frame)))
                   joined == merge_left(with_code, text_df, codigo_link, codigo)
               IN IF joined.kind = "error" THEN joined
                  ELSE drop_columns(joined, {codigo_link, codigo})

----------------------------------------------------------------------------
(* Inputs *)

\* header cells
H_FeAcc == StrV(<<"F", "e'">>)

H_fe == StrV(<<"f", "e">>)

H_star == StrV(<<"*", "*", "*">>)

H_x == StrV(<<"x">>)

H_year == NumV(<<"2", "0", "2", "7">>)

HeaderRowPool ==
  { <<H_FeAcc>>, <<H_fe>>, <<NoneV, H_fe>>, <<H_FeAcc, H_fe>>,
    <<H_fe, H_star, H_FeAcc>>, <<H_year>> }

\* data cells
C_plain == Cell(StrV(<<"a">>), NoLink)

C_url == Cell(StrV(<<"http://", "a">>), NoLink)

C_link == Cell(StrV(<<"a">>), LinkTo(<<"https://", "b">>))

C_selflink == Cell(StrV(<<"https://", "b">>), LinkTo(<<"https://", "b">>))

C_num == Cell(NumV(<<"7">>), NoLink)

C_none == Cell(NoneV, NoLink)

C_numlink == Cell(NumV(<<"7">>), LinkTo(<<"http://", "a">>))

RowsPool ==
  { <<>>,
    << <<C_plain, C_link, C_numlink>> >>,
    << <<C_url>>, <<C_selflink, C_num, C_none>> >> }

SheetPool == {[header |-> h, rows |-> r] : h \in HeaderRowPool, r \in RowsPool}

Workbook(sheets) == [ok |-> TRUE, worksheets |-> sheets]

Corrupt == [ok |-> FALSE, worksheets |-> <<>>]

WorkbookPool == {Workbook(s) : s \in SeqsUpTo(SheetPool, MaxSheets)} \cup {Corrupt}

MappingPool ==
  { << >>,
    (<<"F", "e'">> :> <<"d">>),
    (<<"f", "e">> :> <<"r">>),
    (<<"F", "e'">> :> <<"d">>) @@ (<<"f", "e">> :> <<"r">>),
    (<<"*", "*", "*">> :> <<"s">>),
    (<<>> :> <<"b">>),
    (<<"col", "_", "1">> :> <<"z">>) }

N_a == <<"a", ".", "xlsx">>

N_b == <<"dir", "/", "b", ".", "1", ".", "xlsx">>

NamePool == {N_a, N_b}

FileWorkbookPool ==
  {Workbook(<<[header |-> h, rows |-> r]>>) :
     h \in {<<H_FeAcc>>, <<H_x, H_fe>>}, r \in RowsPool}
  \cup {Workbook(<< [header |-> <<H_fe>>, rows |-> << <<C_plain>> >>],
                    [header |-> <<H_star, H_x>>, rows |-> << <<C_num, C_url>> >>] >>),
        Corrupt}

FilePool == {[name |-> n, data |-> wb] : n \in NamePool, wb \in FileWorkbookPool}

----------------------------------------------------------------------------
(* The unification step of POST /mapping (lines 349-357) *)

Unify ==
  /\ pc = "unify"
  /\ df' = IF Len(files) > 1 THEN unify_files(files, mapping)
           ELSE IF Len(files) = 1 THEN unify_workbook(files[1].data, mapping)
           ELSE DataFrame(<<>>, <<>>)
  /\ locals' = [i \in 1..Len(files) |-> unify_locals(files[i].data, mapping)]
  /\ pc' = "unified"
  /\ UNCHANGED <<files, mapping, xml_bytes, merged, mappings_dir, flashed, request>>
  /\ UNCHANGED <<session, history, processed, response, workers, canon_in, canon_out, extracted>>

InitUnify ==
  /\ files \in {<<[name |-> N_a, data |-> wb]>> : wb \in WorkbookPool}
  /\ mapping \in MappingPool
  /\ xml_bytes = NoXml
  /\ df = NoResult
  /\ locals = <<>>
  /\ merged = NoResult
  /\ pc = "unify"
  /\ mappings_dir = << >>
  /\ flashed = ""
  /\ request = NoRequest
  /\ WebIdle
  /\ PureIdle

NextUnify == Unify

SpecUnify == InitUnify /\ [][NextUnify]_vars

InitFiles ==
  /\ files \in SeqsUpTo(FilePool, MaxFiles)
  /\ mapping \in {<< >>, (<<"F", "e'">> :> <<"d">>) @@ (<<"f", "e">> :> <<"r">>)}
  /\ xml_bytes = NoXml
  /\ df = NoResult
  /\ locals = <<>>
  /\ merged = NoResult
  /\ pc = "unify"
  /\ mappings_dir = << >>
  /\ flashed = ""
  /\ request = NoRequest
  /\ WebIdle
  /\ PureIdle

SpecFiles == InitFiles /\ [][NextUnify]_vars

----------------------------------------------------------------------------
(* add_text_column on a unified table and a document *)

AddTextColumn ==
  /\ pc = "join"
  /\ merged' = add_text_column(df, xml_bytes)
  /\ pc' = "joined"
  /\ UNCHANGED <<files, mapping, xml_bytes, df, locals, mappings_dir, flashed, request>>
  /\ UNCHANGED <<session, history, processed, response, workers, canon_in, canon_out, extracted>>

\* <noticia> records
R_12 == [Url_Noticia |-> <<"http://", "x", "/index/1/", "1", "2">>, FullText |-> <<"Hello">>]

R_7 == [Url_Noticia |-> <<"/VerNoticia/", "7">>, FullText |-> <<" ", "Hi", " ">>]

R_12bis == [Url_Noticia |-> <<"x", "/VerNoticia/", "1", "2", "x">>, FullText |-> <<"Dup">>]

R_nocode == [Url_Noticia |-> <<>>, FullText |-> <<"zzz">>]

NoticiaPool == {R_12, R_7, R_12bis, R_nocode}

XmlPool ==
  {NoXml, Malformed, Xml(<<>>)} \cup {Xml(ns) : ns \in SeqsUpTo(NoticiaPool, MaxRecords)}

\* values of the URL column of a unified table
U_12 == StrV(<<"x", "/VerNoticia/", "1", "2">>)

U_7link == StrV(HYPERLINK(<<"http://", "x", "/index/1/", "7">>, <<"ver">>))

U_1 == StrV(<<"/index/1/", "1">>)

U_num == NumV(<<"7">>)

UrlValuePool == {U_12, U_7link, U_1, U_num, EmptyStr}

\* column layouts of a unified table: the names and where the URL values go
ColumnLayouts ==
  { [columns |-> << <<"Url", "_", "Noticia">>, <<"a">> >>, at |-> 1],
    [columns |-> << <<"a">>, <<"URL", " ", "Noticia">> >>, at |-> 2],
    [columns |-> << <<"x">>, <<"a">> >>, at |-> 1],
    [columns |-> << url_noticia, texto >>, at |-> 1],
    [columns |-> << url_noticia, codigo >>, at |-> 1],
    [columns |-> << codigo_link, url_noticia >>, at |-> 2] }

TableOf(layout, urls) ==
  DataFrame(layout.columns,
            [r \in 1..Len(urls) |->
               IF layout.at = 1 THEN <<urls[r], StrV(<<"a">>)>> ELSE <<StrV(<<"a">>), urls[r]>>])

JoinTablePool ==
  {TableOf(l, <<>>) : l \in ColumnLayouts}
  \cup {TableOf(l, us) : l \in ColumnLayouts, us \in SeqsUpTo(UrlValuePool, MaxJoinRows)}

InitJoin ==
  /\ files = <<>>
  /\ mapping = << >>
  /\ xml_bytes \in XmlPool
  /\ df \in JoinTablePool
  /\ locals = <<>>
  /\ merged = NoResult
  /\ pc = "join"
  /\ mappings_dir = << >>
  /\ flashed = ""
  /\ request = NoRequest
  /\ WebIdle
  /\ PureIdle

NextJoin == AddTextColumn

SpecJoin == InitJoin /\ [][NextJoin]_vars

----------------------------------------------------------------------------
(* The mapping store: MAPPINGS_DIR as the set of <slug>.json files with    *)
(* their contents, and the requests that write it                          *)

lp == <<"lp">>

simbiu == <<"simbiu">>

\* list_mappings(): the two default types and every stored file
list_mappings == {lp, simbiu} \cup DOMAIN mappings_dir

\* the store after save_mapping(name, content)
save_mapping(name, content) ==
  [s \in DOMAIN mappings_dir \cup {slugify(name)} |->
     IF s = slugify(name) THEN content ELSE mappings_dir[s]]

\* load_mapping(name): {} when there is no file
load_mapping(name) == Get(mappings_dir, slugify(name), << >>)

\* the store after delete_mapping(name)
delete_mapping(name) ==
  [s \in DOMAIN mappings_dir \ {slugify(name)} |-> mappings_dir[s]]

\* clone_mapping(src, dest): the exception raised, "" when the copy is made
clone_error(src, dest) ==
  IF slugify(src) \notin DOMAIN mappings_dir THEN "FileNotFoundError"
  ELSE IF slugify(dest) \in DOMAIN mappings_dir THEN "FileExistsError"
  ELSE ""

\* the store after a clone_mapping(src, dest) that raised nothing
clone_mapping(src, dest) ==
  [s \in DOMAIN mappings_dir \cup {slugify(dest)} |->
     IF s = slugify(dest) THEN mappings_dir[slugify(src)] ELSE mappings_dir[s]]

\* names a form can carry
NamePoolAdmin == {lp, simbiu, <<" ", "LP">>, <<"otro">>, <<>>}

\* contents the mapping form can post
ContentPool == {(<<"x">> :> <<"d">>), (<<"x">> :> <<"r">>)}

\* the variables no request touches
pure_vars == <<files, mapping, xml_bytes, df, locals, merged, workers,
               canon_in, canon_out, extracted>>

\* mutant: every session passes for logged in
LoggedInAlways == TRUE

\* session.get("user") is truthy
LoggedIn == Get(session, "user", "") # ""

\* the request a handler records: its action, the names and the document it carries
Request(action, name, src, doc) == [action |-> action, name |-> name, src |-> src, doc |-> doc]

\* the request of the mapping form: its action and the posted fields
FormRequest(action, form) ==
  [action |-> action, name |-> <<>>, src |-> <<>>, doc |-> NoXml, form |-> form]

\* login_required: without user the view is not called, the answer is a redirect
ToLogin ==
  /\ response' = Redirect("login")
  /\ UNCHANGED <<mappings_dir, flashed, session, history, processed>>

\* POST /mappings, action=create
Create(new_name) ==
  LET slug == slugify(Strip(new_name, Whitespace))
  IN /\ pc \in {"admin", "web"}
     /\ pc' = IF pc = "web" THEN "responded" ELSE pc
     /\ request' = Request("create", new_name, <<>>, NoXml)
     /\ IF ~LoggedIn THEN ToLogin
        ELSE /\ IF slug = <<>>
                  THEN /\ flashed' = "Debes indicar un nombre"
                       /\ response' = Redirect("mappings_admin")
                       /\ UNCHANGED mappings_dir
                ELSE IF slug \in {slugify(m) : m \in list_mappings}
                  THEN /\ flashed' = "Ese tipo ya existe"
                       /\ response' = Redirect("mappings_admin")
                       /\ UNCHANGED mappings_dir
                ELSE /\ flashed' = "Tipo creado"
                     /\ response' = Redirect("home")
                     /\ mappings_dir' = save_mapping(slug, << >>)
             /\ UNCHANGED <<session, history, processed>>
     /\ UNCHANGED pure_vars

\* POST /mappings, action=clone
Clone(clone_src, clone_dest) ==
  LET src == slugify(clone_src)
      slug == slugify(Strip(clone_dest, Whitespace))
  IN /\ pc \in {"admin", "web"}
     /\ pc' = IF pc = "web" THEN "responded" ELSE pc
     /\ request' = Request("clone", clone_dest, clone_src, NoXml)
     /\ IF ~LoggedIn THEN ToLogin
        ELSE /\ IF slug = <<>>
                  THEN /\ flashed' = "Debes indicar el nombre destino"
                       /\ response' = Redirect("mappings_admin")
                       /\ UNCHANGED mappings_dir
                ELSE IF clone_error(src, slug) = "FileExistsError"
                  THEN /\ flashed' = "Ya existe un tipo con ese nombre"
                       /\ response' = Redirect("mappings_admin")
                       /\ UNCHANGED mappings_dir
                ELSE IF clone_error(src, slug) = "FileNotFoundError"
                  THEN /\ flashed' = "Tipo origen no encontrado"
                       /\ response' = Redirect("mappings_admin")
                       /\ UNCHANGED mappings_dir
                ELSE /\ flashed' = "Tipo clonado"
                     /\ response' = Redirect("home")
                     /\ mappings_dir' = clone_mapping(src, slug)
             /\ UNCHANGED <<session, history, processed>>
     /\ UNCHANGED pure_vars

\* POST /mappings, action=delete
Delete(delete_name) ==
  LET name == Strip(delete_name, Whitespace)
  IN /\ pc \in {"admin", "web"}
     /\ pc' = IF pc = "web" THEN "responded" ELSE pc
     /\ request' = Request("delete", delete_name, <<>>, NoXml)
     /\ IF ~LoggedIn THEN ToLogin
        ELSE /\ IF name \in {lp, simbiu}
                  THEN flashed' = "No se puede borrar ese tipo" /\ UNCHANGED mappings_dir
                  ELSE flashed' = "Tipo eliminado" /\ mappings_dir' = delete_mapping(name)
             /\ response' = Redirect("mappings_admin")
             /\ UNCHANGED <<session, history, processed>>
     /\ UNCHANGED pure_vars

\* POST /mapping, action=save, in a session whose upload chose mapping_name:
\* the posted form replaces the stored mapping
SaveMapping(mapping_name, content) ==
  /\ pc = "admin"
  /\ request' = Request("save", mapping_name, <<>>, NoXml)
  /\ mappings_dir' = save_mapping(mapping_name, content)
  /\ flashed' = "Configuracion guardada"
  /\ response' = Redirect("mapping")
  /\ UNCHANGED <<files, mapping, xml_bytes, df, locals, merged, pc>>
  /\ UNCHANGED <<session, history, processed, workers, canon_in, canon_out, extracted>>

InitAdmin ==
  /\ files = <<>>
  /\ mapping = << >>
  /\ xml_bytes = NoXml
  /\ df = NoResult
  /\ locals = <<>>
  /\ merged = NoResult
  /\ pc = "admin"
  /\ mappings_dir = << >>
  /\ flashed = ""
  /\ request = NoRequest
  /\ session = LoggedInSession
  /\ history = <<>>
  /\ processed = << >>
  /\ response = NoResponse
  /\ workers = <<>>
  /\ PureIdle

NextAdmin ==
  \/ \E n \in NamePoolAdmin : Create(n)
  \/ \E a \in NamePoolAdmin, b \in NamePoolAdmin : Clone(a, b)
  \/ \E n \in NamePoolAdmin : Delete(n)
  \/ \E n \in {lp, <<"otro">>}, c \in ContentPool : SaveMapping(n, c)

SpecAdmin == InitAdmin /\ [][NextAdmin]_vars

----------------------------------------------------------------------------
(* The web application: the session, the processed files, the history file  *)
(* and one action per route.  A request is handled in one step.             *)

\* str.lower()
Lower(s) == [i \in 1..Len(s) |-> LowerSym(s[i])]

\* str.endswith(suffix)
EndsWith(s, suffix) ==
  Len(s) >= Len(suffix) /\ SubSeq(s, Len(s) - Len(suffix) + 1, Len(s)) = suffix

\* session[k] = v
SessionSet(s, k, v) == (k :> v) @@ s

\* session.pop(k, None)
SessionPop(s, k) == [x \in DOMAIN s \ {k} |-> s[x]]

\* load_history(): the records of the history file
load_history == history

\* mutant: the new record put before the records read
add_history_first(records, mapping_name, fecha, filename) ==
  <<[mapping |-> mapping_name, fecha |-> fecha, archivo |-> filename]>> \o records

\* the history file after add_history(mapping, filename), records being what
\* load_history returned and fecha the time of the call
add_history(records, mapping_name, fecha, filename) ==
  Append(records, [mapping |-> mapping_name, fecha |-> fecha, archivo |-> filename])

\* records[::-1]
RECURSIVE Reversed(_)
Reversed(records) ==
  IF records = <<>> THEN <<>> ELSE Append(Reversed(Tail(records)), Head(records))

\* the mapping posted by the form: values stripped, blank ones left out
form_mapping(form) ==
  [k \in {c \in DOMAIN form : Strip(form[c], Whitespace) # <<>>} |-> Strip(form[k], Whitespace)]

\* the try block of POST /mapping up to the table to write (lines 349-361)
unification(fs, m, mapping_name, xml) ==
  LET unified == IF Len(fs) > 1 THEN unify_files(fs, m)
                 ELSE IF Len(fs) = 1 THEN unify_workbook(fs[1].data, m)
                 ELSE DataFrame(<<>>, <<>>)
  IN IF unified.kind = "error" THEN unified
     ELSE IF mapping_name = simbiu THEN add_text_column(unified, xml)
     ELSE unified

\* mutant: no type requires a document
xml_required_never(mapping_choice) == FALSE

\* the upload must carry an XML document (line 303)
xml_required(mapping_choice) == mapping_choice = simbiu

\* mutant: no exception is caught
caught_never(result) == FALSE

\* the except clause of POST /mapping: an exception left the try block
caught(result) == result.kind = "error"

\* mutant: the mapping step never asks for a column listing
missing_never(cols_per_sheet) == FALSE

\* "if not cols_per_sheet": the session holds no column listing
missing(cols_per_sheet) == cols_per_sheet = <<>>

\* inputs of the requests
Credentials == {<<"AnalisisLP", "AnalisisLP2025">>, <<"AnalisisLP", "AnalisisLP">>}

H_url == StrV(<<"Url", "_", "Noticia">>)

W_sheet == [header |-> <<H_url, NoneV>>, rows |-> << <<Cell(U_12, NoLink), C_plain>> >>]

W_ok == [name |-> N_a, data |-> Workbook(<<W_sheet>>)]

W_corrupt == [name |-> N_b, data |-> Corrupt]

W_txt == [name |-> <<"a", ".", "txt">>, data |-> Workbook(<<W_sheet>>)]

UploadPool == {<<>>, <<W_ok>>, <<W_ok, W_corrupt>>, <<W_corrupt>>, <<W_txt>>}

NoUpload == [name |-> <<>>, data |-> NoXml]

X_ok == [name |-> <<"n", ".", "XML">>, data |-> Xml(<<R_12>>)]

X_malformed == [name |-> <<"n", ".", "xml">>, data |-> Malformed]

X_empty == [name |-> <<"n", ".", "xml">>, data |-> NoXml]

X_txt == [name |-> <<"n", ".", "txt">>, data |-> Xml(<<R_12>>)]

XmlUploadPool == {NoUpload, X_ok, X_malformed, X_empty, X_txt}

ChoicePool == {lp, <<"Simbiu">>}

FormPool ==
  { (<<"Url", "_", "Noticia">> :> <<" ">>) @@ (<<"col", "_", "2">> :> <<"z", " ">>) }

\* the names uuid4() gives to the processed files, in the order it gives them
Uuids == <<"u1", "u2">>

\* the seconds at which datetime.now() is read
ClockPool == {1, 2}

\* POST /login
Login(username, password) ==
  /\ pc = "web"
  /\ pc' = "responded"
  /\ request' = Request("login", <<username>>, <<password>>, NoXml)
  /\ IF username = "AnalisisLP" /\ password = "AnalisisLP2025"
       THEN /\ session' = SessionSet(session, "user", "AnalisisLP")
            /\ response' = Redirect("home")
       ELSE /\ response' = Page("login", <<"Credenciales incorrectas">>)
            /\ UNCHANGED session
  /\ UNCHANGED <<mappings_dir, flashed, history, processed, pure_vars>>

\* GET /logout
Logout ==
  /\ pc = "web"
  /\ pc' = "responded"
  /\ request' = Request("logout", <<>>, <<>>, NoXml)
  /\ session' = SessionPop(session, "user")
  /\ response' = Redirect("login")
  /\ UNCHANGED <<mappings_dir, flashed, history, processed, pure_vars>>

\* GET /
HomeGet ==
  /\ pc = "web"
  /\ pc' = "responded"
  /\ request' = Request("home", <<>>, <<>>, NoXml)
  /\ IF ~LoggedIn THEN ToLogin
     ELSE /\ response' = Page("home", <<list_mappings>>)
          /\ UNCHANGED <<mappings_dir, flashed, session, history, processed>>
  /\ UNCHANGED pure_vars

\* POST /: the upload.  When the first workbook cannot be opened the handler
\* ends in an exception after the session was written; the server may or may
\* not save the session of such a request.
Upload(choice, files_xlsx, f_xml) ==
  LET mapping_choice == slugify(choice)
      xlsx_ok == /\ files_xlsx # <<>>
                 /\ \A i \in 1..Len(files_xlsx) :
                      EndsWith(Lower(files_xlsx[i].name), <<".", "xlsx">>)
      xml_ok == f_xml.name # <<>> /\ EndsWith(Lower(f_xml.name), <<".", "xml">>)
      s1 == IF xml_required(mapping_choice) THEN SessionSet(session, "file_xml", f_xml.data)
            ELSE session
      s2 == SessionSet(SessionSet(SessionSet(s1, "files_xlsx", files_xlsx),
                                  "file_xlsx_name", stem(files_xlsx[1].name)),
                       "mapping_name", mapping_choice)
  IN /\ pc = "web"
     /\ pc' = "responded"
     /\ request' = Request("upload", choice, f_xml.name, f_xml.data)
     /\ IF ~LoggedIn THEN ToLogin
        ELSE /\ IF ~xlsx_ok
                  THEN /\ flashed' = "Sube un archivo Excel (.xlsx) valido."
                       /\ response' = Redirect("home")
                       /\ UNCHANGED session
                ELSE IF xml_required(mapping_choice) /\ ~xml_ok
                  THEN /\ flashed' = "Para planillas Simbiu debes subir tambien el XML."
                       /\ response' = Redirect("home")
                       /\ UNCHANGED session
                ELSE IF ~files_xlsx[1].data.ok
                  THEN /\ response' = Abort("500")
                       /\ session' \in {session, s2}
                       /\ UNCHANGED flashed
                ELSE /\ session' = SessionSet(s2, "cols_per_sheet",
                                              workbook_columns(files_xlsx[1].data))
                     /\ response' = Redirect("mapping")
                     /\ UNCHANGED flashed
             /\ UNCHANGED <<mappings_dir, history, processed>>
     /\ UNCHANGED pure_vars

\* GET /mapping
MappingGet ==
  /\ pc = "web"
  /\ pc' = "responded"
  /\ request' = Request("mapping", <<>>, <<>>, NoXml)
  /\ IF ~LoggedIn THEN ToLogin
     ELSE /\ response' =
               IF missing(Get(session, "cols_per_sheet", <<>>)) THEN Redirect("home")
               ELSE Page("mapping", <<Get(session, "cols_per_sheet", <<>>),
                                      load_mapping(Get(session, "mapping_name", lp))>>)
          /\ UNCHANGED <<mappings_dir, flashed, session, history, processed>>
  /\ UNCHANGED pure_vars

\* POST /mapping: the form is saved, then (action unify) the uploaded files are
\* unified, the table written under a fresh name and recorded in the history
MappingPost(action, form) ==
  LET cols_per_sheet == Get(session, "cols_per_sheet", <<>>)
      mapping_name == Get(session, "mapping_name", lp)
      m == form_mapping(form)
      result == unification(Get(session, "files_xlsx", <<>>), m, mapping_name,
                            Get(session, "file_xml", NoXml))
      base == Get(session, "file_xlsx_name", slugify(mapping_name))
  IN /\ pc = "web"
     /\ pc' = "responded"
     /\ action = "unify" => Cardinality(DOMAIN processed) < Len(Uuids)
     /\ request' = FormRequest(action, form)
     /\ IF ~LoggedIn THEN ToLogin
        ELSE IF missing(cols_per_sheet)
          THEN /\ response' = Redirect("home")
               /\ UNCHANGED <<mappings_dir, flashed, session, history, processed>>
        ELSE /\ mappings_dir' = save_mapping(mapping_name, m)
             /\ IF action = "save"
                  THEN /\ flashed' = "Configuracion guardada"
                       /\ response' = Redirect("mapping")
                       /\ UNCHANGED <<session, history, processed>>
                ELSE IF caught(result)
                  THEN /\ flashed' = "Ocurrio un error al procesar los archivos"
                       /\ response' = Redirect("mapping")
                       /\ UNCHANGED <<session, history, processed>>
                ELSE \E filename \in {Uuids[Cardinality(DOMAIN processed) + 1]} :
                     \E fecha \in ClockPool :
                       /\ \A r \in 1..Len(history) : history[r].fecha <= fecha
                       /\ processed' = (filename :> result) @@ processed
                       /\ history' = add_history(load_history, mapping_name, fecha, filename)
                       /\ session' = NoSession
                       /\ response' = SendFile(<<"Unificado", "_">> \o base \o <<".", "xlsx">>,
                                               result)
                       /\ UNCHANGED flashed
     /\ UNCHANGED pure_vars

\* GET /processed/<filename>
DownloadProcessed(filename) ==
  /\ pc = "web"
  /\ pc' = "responded"
  /\ request' = Request("download", <<>>, <<>>, NoXml)
  /\ IF ~LoggedIn THEN ToLogin
     ELSE /\ response' = IF filename \in DOMAIN processed
                           THEN SendFile(filename, processed[filename])
                           ELSE Abort("404")
          /\ UNCHANGED <<mappings_dir, flashed, session, history, processed>>
  /\ UNCHANGED pure_vars

\* GET /historial
Historial ==
  /\ pc = "web"
  /\ pc' = "responded"
  /\ request' = Request("historial", <<>>, <<>>, NoXml)
  /\ IF ~LoggedIn THEN ToLogin
     ELSE /\ response' = Page("historial", Reversed(load_history))
          /\ UNCHANGED <<mappings_dir, flashed, session, history, processed>>
  /\ UNCHANGED pure_vars

\* the response is sent and the request context popped: the request, its
\* response and the messages it flashed are gone
Teardown ==
  /\ pc = "responded"
  /\ pc' = "web"
  /\ request' = NoRequest
  /\ response' = NoResponse
  /\ flashed' = ""
  /\ UNCHANGED <<mappings_dir, session, history, processed, pure_vars>>

InitWeb ==
  /\ files = <<>>
  /\ mapping = << >>
  /\ xml_bytes = NoXml
  /\ df = NoResult
  /\ locals = <<>>
  /\ merged = NoResult
  /\ pc = "web"
  /\ mappings_dir = << >>
  /\ flashed = ""
  /\ request = NoRequest
  /\ WebIdle
  /\ PureIdle

NextWeb ==
  \/ \E c \in Credentials : Login(c[1], c[2])
  \/ Logout
  \/ HomeGet
  \/ \E choice \in ChoicePool, fs \in UploadPool, x \in XmlUploadPool : Upload(choice, fs, x)
  \/ MappingGet
  \/ \E action \in {"save", "unify"}, form \in FormPool : MappingPost(action, form)
  \/ Create(<<"otro">>)
  \/ Clone(lp, <<"otro">>)
  \/ Delete(<<"otro">>)
  \/ \E filename \in {Uuids[i] : i \in 1..Len(Uuids)} : DownloadProcessed(filename)
  \/ Historial
  \/ Teardown

SpecWeb == InitWeb /\ [][NextWeb]_vars

----------------------------------------------------------------------------
(* Two unify requests served at the same time (the server handles requests  *)
(* in threads): each writes its processed file and calls add_history, whose *)
(* read of the history file and write of it are separate steps.             *)

\* the requests in flight
Workers == {1, 2}

\* a record of the history file written by an earlier request
OldRecord == [mapping |-> lp, fecha |-> 1, archivo |-> "u0"]

\* (PROCESSED_DIR / filename).write_bytes(out.getvalue()), line 368
WriteProcessed(w) ==
  /\ pc = "history"
  /\ workers[w].pc = "start"
  /\ processed' = (Uuids[w] :> workers[w].merged) @@ processed
  /\ workers' = [workers EXCEPT ![w].pc = "written"]
  /\ UNCHANGED <<files, mapping, xml_bytes, df, locals, merged, pc, mappings_dir, flashed,
                 request, session, history, response, canon_in, canon_out, extracted>>

\* add_history: records = load_history(), and the time read for the record
LoadHistory(w) ==
  /\ pc = "history"
  /\ workers[w].pc = "written"
  /\ \E fecha \in ClockPool :
       /\ \A r \in 1..Len(history) : history[r].fecha <= fecha
       /\ workers' = [workers EXCEPT ![w].pc = "loaded",
                                     ![w].records = load_history,
                                     ![w].fecha = fecha]
  /\ UNCHANGED <<files, mapping, xml_bytes, df, locals, merged, pc, mappings_dir, flashed,
                 request, session, history, processed, response, canon_in, canon_out,
                 extracted>>

\* add_history: records.append(...) and HISTORY_FILE.write_text(...)
WriteHistory(w) ==
  /\ pc = "history"
  /\ workers[w].pc = "loaded"
  /\ history' = add_history(workers[w].records, workers[w].mapping, workers[w].fecha, Uuids[w])
  /\ workers' = [workers EXCEPT ![w].pc = "done"]
  /\ UNCHANGED <<files, mapping, xml_bytes, df, locals, merged, pc, mappings_dir, flashed,
                 request, session, processed, response, canon_in, canon_out, extracted>>

InitHistory ==
  /\ files = <<>>
  /\ mapping = << >>
  /\ xml_bytes = NoXml
  /\ df = NoResult
  /\ locals = <<>>
  /\ merged = NoResult
  /\ pc = "history"
  /\ mappings_dir = << >>
  /\ flashed = ""
  /\ request = NoRequest
  /\ session = LoggedInSession
  /\ history \in {<<>>, <<OldRecord>>}
  /\ processed = << >>
  /\ response = NoResponse
  /\ workers \in [Workers -> {[pc |-> "start", mapping |-> n, merged |-> DataFrame(<<>>, <<>>),
                               records |-> <<>>, fecha |-> 0] : n \in {lp, simbiu}}]
  /\ PureIdle

NextHistory ==
  \/ \E w \in Workers : WriteProcessed(w)
  \/ \E w \in Workers : LoadHistory(w)
  \/ \E w \in Workers : WriteHistory(w)

SpecHistory == InitHistory /\ [][NextHistory]_vars

----------------------------------------------------------------------------
(* build_text_df on a document *)

BuildTextDf ==
  /\ pc = "text"
  /\ extracted' = build_text_df(xml_bytes)
  /\ pc' = "texted"
  /\ UNCHANGED <<files, mapping, xml_bytes, df, locals, merged, mappings_dir, flashed,
                 request, session, history, processed, response, workers, canon_in, canon_out>>

InitText ==
  /\ files = <<>>
  /\ mapping = << >>
  /\ xml_bytes \in {Malformed, Xml(<<>>)} \cup {Xml(ns) : ns \in SeqsUpTo(NoticiaPool, MaxNoticias)}
  /\ df = NoResult
  /\ locals = <<>>
  /\ merged = NoResult
  /\ pc = "text"
  /\ mappings_dir = << >>
  /\ flashed = ""
  /\ request = NoRequest
  /\ WebIdle
  /\ PureIdle

NextText == BuildTextDf

SpecText == InitText /\ [][NextText]_vars

----------------------------------------------------------------------------
(* canonicalize applied to a string, and again to its result *)

\* upper and lower case letters with and without diacritics, a digit, the
\* space, the underscore and another symbol
CanonAlphabet == {"F", "E'", "e'", "a", "1", " ", "_", "*"}

Canonicalize ==
  /\ pc = "canon"
  /\ Len(canon_out) < 2
  /\ canon_out' = Append(canon_out,
                         canonicalize(IF canon_out = <<>> THEN canon_in
                                      ELSE canon_out[Len(canon_out)]))
  /\ UNCHANGED <<files, mapping, xml_bytes, df, locals, merged, pc, mappings_dir, flashed,
                 request, session, history, processed, response, workers, canon_in, extracted>>

InitCanon ==
  /\ files = <<>>
  /\ mapping = << >>
  /\ xml_bytes = NoXml
  /\ df = NoResult
  /\ locals = <<>>
  /\ merged = NoResult
  /\ pc = "canon"
  /\ mappings_dir = << >>
  /\ flashed = ""
  /\ request = NoRequest
  /\ WebIdle
  /\ canon_in \in {<<>>} \cup SeqsUpTo(CanonAlphabet, MaxLen)
  /\ canon_out = <<>>
  /\ extracted = NoResult

NextCanon == Canonicalize

SpecCanon == InitCanon /\ [][NextCanon]_vars

----------------------------------------------------------------------------
(* Properties of unify_workbook *)

\* the lookup order of the Mapping Resolver, as the specification words it
Resolved(h, m) ==
  IF h \in DOMAIN m THEN m[h]
  ELSE IF canonicalize(h) \in DOMAIN m THEN m[canonicalize(h)]
  ELSE canonicalize(h)

\* the single workbook of a one-file unification, and whether a table came back
TheWorkbook == files[1].data

UnifiedOne == pc = "unified" /\ Len(files) = 1 /\ df.kind = "df"

\* the resolved destination of every header cell, in scanning order
ScannedDests ==
  [i \in 1..Len(all_headers(TheWorkbook)) |->
     Resolved(OrEmpty(all_headers(TheWorkbook)[i]).s, mapping)]

\* (sheet, row) of every output row, in output order
RowOrigins ==
  Concat([i \in 1..Len(TheWorkbook.worksheets) |->
            [r \in 1..Len(TheWorkbook.worksheets[i].rows) |-> <<i, r>>]])

SheetDest(i, idx) == Resolved(OrEmpty(TheWorkbook.worksheets[i].header[idx]).s, mapping)

\* the source columns of sheet i that contribute to destination d
Contributors(i, d) ==
  {idx \in 1..Len(TheWorkbook.worksheets[i].header) : d # <<>> /\ SheetDest(i, idx) = d}

\* C1: the columns of the table unify_workbook returns are the resolved
\* destinations of all header cells, scanned sheet by sheet and left to right,
\* each kept at its first occurrence only.
C1_ColumnOrder ==
  UnifiedOne =>
    /\ \A j \in 1..Len(df.columns) : InSeq(df.columns[j], ScannedDests)
    /\ \A i \in 1..Len(ScannedDests) : InSeq(ScannedDests[i], df.columns)
    /\ \A j, k \in 1..Len(df.columns) : j # k => df.columns[j] # df.columns[k]
    /\ \A j, k \in 1..Len(df.columns) :
         j < k => IndexOf(ScannedDests, df.columns[j]) < IndexOf(ScannedDests, df.columns[k])

\* two headers of different sheets ("Fe'" and "fe") resolved to one column
C1_Witness ==
  /\ UnifiedOne
  /\ mapping = << >>
  /\ Len(TheWorkbook.worksheets) = 2
  /\ TheWorkbook.worksheets[1].header = <<H_FeAcc>>
  /\ TheWorkbook.worksheets[2].header = <<H_fe>>
  /\ df.columns = << <<"f", "e">> >>

\* C2: every row of the table has as many cells as there are columns, and a
\* cell whose column has no contributing source column in the row's sheet is
\* the empty string.
C2_RowWidth ==
  UnifiedOne =>
    /\ Len(df.rows) = Len(RowOrigins)
    /\ \A k \in 1..Len(df.rows) :
         /\ Len(df.rows[k]) = Len(df.columns)
         /\ \A j \in 1..Len(df.columns) :
              Contributors(RowOrigins[k][1], df.columns[j]) = {} => df.rows[k][j] = EmptyStr

\* a row of the second sheet under columns that only the first sheet feeds
C2_Witness ==
  /\ UnifiedOne
  /\ Len(df.columns) >= 2
  /\ \E k \in 1..Len(df.rows) :
       /\ RowOrigins[k][1] = 2
       /\ \E j \in 1..Len(df.columns) :
            /\ Contributors(2, df.columns[j]) = {}
            /\ Contributors(1, df.columns[j]) # {}
       /\ \E j \in 1..Len(df.columns) : df.rows[k][j] # EmptyStr

\* a header canonicalizes to "" and has no mapping entry, raw or canonical
Unmapped(h, m) == canonicalize(h) = <<>> /\ h \notin DOMAIN m /\ <<>> \notin DOMAIN m

\* C3: a header that canonicalizes to the empty string and has no mapping
\* entry contributes no column (no empty-named column) and none of its values
\* reach an output row.
C3_UnmappedDropped ==
  UnifiedOne =>
    /\ (\E i \in 1..Len(all_headers(TheWorkbook)) :
          Unmapped(OrEmpty(all_headers(TheWorkbook)[i]).s, mapping))
         => ~InSeq(<<>>, df.columns)
    /\ \A k \in 1..Len(df.rows) : \A j \in 1..Len(df.rows[k]) :
         \/ df.rows[k][j] = EmptyStr
         \/ \E idx \in Contributors(RowOrigins[k][1], df.columns[j]) :
              LET row == TheWorkbook.worksheets[RowOrigins[k][1]].rows[RowOrigins[k][2]]
              IN idx <= Len(row) /\ df.rows[k][j] = cell_value(row[idx])

\* the values of an unmapped column are dropped (the part of C3 the code keeps)
C3_ValuesDropped ==
  UnifiedOne =>
    \A k \in 1..Len(df.rows) : \A j \in 1..Len(df.rows[k]) :
      df.columns[j] = <<>> => df.rows[k][j] = EmptyStr

\* the (display, target) pair a cell value carries, when it is a link
IsLinkPair(v, display, target) ==
  v = StrV(<<"=HYPERLINK(\"">> \o target \o <<"\", \"">> \o display \o <<"\")">>)

IsLink(v) == v.k = "str" /\ v.s # <<>> /\ Head(v.s) = "=HYPERLINK(\""

\* the source cell whose value an output cell holds: the last contributor the
\* row reaches
Written(k, j) ==
  LET i == RowOrigins[k][1]
      row == TheWorkbook.worksheets[i].rows[RowOrigins[k][2]]
      reached == {idx \in Contributors(i, df.columns[j]) : idx <= Len(row)}
  IN IF reached = {} THEN 0 ELSE CHOOSE idx \in reached : \A o \in reached : o <= idx

SourceCell(k, j) ==
  TheWorkbook.worksheets[RowOrigins[k][1]].rows[RowOrigins[k][2]][Written(k, j)]

\* C4 as claimed: link (D, T) for a hyperlink T different from the display D,
\* link (V, V) for a bare URL string without hyperlink, the value unchanged in
\* every other case.
C4_Original ==
  UnifiedOne =>
    \A k \in 1..Len(df.rows) : \A j \in 1..Len(df.columns) :
      Written(k, j) # 0 =>
        LET c == SourceCell(k, j)
            D == FormatV(c.value)
        IN IF c.hyperlink.set /\ c.hyperlink.target # D
             THEN IsLinkPair(df.rows[k][j], D, c.hyperlink.target)
           ELSE IF ~c.hyperlink.set /\ c.value.k = "str" /\ IsHttp(c.value.s)
             THEN IsLinkPair(df.rows[k][j], c.value.s, c.value.s)
           ELSE df.rows[k][j] = c.value

\* C4 amended: link (D, T) for every cell that carries a hyperlink T, equal to
\* its display D or not; link (V, V) for a bare URL string without hyperlink;
\* the value unchanged otherwise, so a cell without hyperlink that is no URL
\* string is never turned into a link.
C4_LinkRule ==
  UnifiedOne =>
    \A k \in 1..Len(df.rows) : \A j \in 1..Len(df.columns) :
      Written(k, j) # 0 =>
        LET c == SourceCell(k, j)
            D == FormatV(c.value)
        IN IF c.hyperlink.set
             THEN IsLinkPair(df.rows[k][j], D, c.hyperlink.target)
           ELSE IF c.value.k = "str" /\ IsHttp(c.value.s)
             THEN IsLinkPair(df.rows[k][j], c.value.s, c.value.s)
           ELSE df.rows[k][j] = c.value /\ ~IsLink(df.rows[k][j])

\* one output row holds a link with its own display and target, a link made
\* of a bare URL, and a plain value
C4_Witness ==
  /\ UnifiedOne
  /\ \E k \in 1..Len(df.rows) : \E j \in 1..Len(df.columns) :
       /\ Written(k, j) # 0
       /\ SourceCell(k, j) = C_link
       /\ IsLinkPair(df.rows[k][j], <<"a">>, <<"https://", "b">>)
  /\ \E k \in 1..Len(df.rows) : \E j \in 1..Len(df.columns) :
       Written(k, j) # 0 /\ SourceCell(k, j) = C_selflink
  /\ \E k \in 1..Len(df.rows) : \E j \in 1..Len(df.columns) :
       Written(k, j) # 0 /\ SourceCell(k, j) = C_url
  /\ \E k \in 1..Len(df.rows) : \E j \in 1..Len(df.columns) :
       Written(k, j) # 0 /\ SourceCell(k, j) = C_num /\ df.rows[k][j] = NumV(<<"7">>)

\* C5: the destination of a header h under mapping m is m[h] when h is a key,
\* else m[canonicalize(h)] when that is a key, else canonicalize(h); the raw
\* entry wins over the canonical one.  Both passes of unify_workbook use it.
C5_LookupOrder ==
  (pc = "unified" /\ Len(files) = 1 /\ df.kind # "error") =>
    /\ \A i \in 1..Len(TheWorkbook.worksheets) :
         \A idx \in 1..Len(TheWorkbook.worksheets[i].header) :
           /\ locals[1].idx2dest[i][idx] = SheetDest(i, idx)
           /\ InSeq(SheetDest(i, idx), locals[1].headers_final)
    /\ \A j \in 1..Len(locals[1].headers_final) :
         InSeq(locals[1].headers_final[j], ScannedDests)

\* a header with both a raw and a canonical entry took the raw one
C5_Witness ==
  /\ UnifiedOne
  /\ DOMAIN mapping = {<<"F", "e'">>, <<"f", "e">>}
  /\ TheWorkbook.worksheets[1].header = <<H_FeAcc, H_fe>>
  /\ locals[1].idx2dest[1] = << <<"d">>, <<"r">> >>
  /\ df.columns = << <<"d">>, <<"r">> >>

\* the name the mapping form shows for the header at position idx of sheet i
FormName(i, idx) == column_name(TheWorkbook.worksheets[i].header[idx], idx).s

\* C15: a blank header cell at 1-indexed position n is resolved under the
\* placeholder name col_<n> in both passes: its destination is the mapping's
\* entry for col_<n> or, absent an entry, col_<n>; that destination is a column
\* of the table, and the column's data appears in the output.
C15_Placeholder ==
  UnifiedOne =>
    \A i \in 1..Len(TheWorkbook.worksheets) :
      \A idx \in 1..Len(TheWorkbook.worksheets[i].header) :
        ~Truthy(TheWorkbook.worksheets[i].header[idx]) =>
          /\ locals[1].idx2dest[i][idx] = Resolved(FormName(i, idx), mapping)
          /\ InSeq(Resolved(FormName(i, idx), mapping), df.columns)
          /\ \A k \in 1..Len(df.rows) :
               LET row == TheWorkbook.worksheets[i].rows[RowOrigins[k][2]]
               IN (RowOrigins[k][1] = i /\ idx <= Len(row)) =>
                    df.rows[k][IndexOf(df.columns, Resolved(FormName(i, idx), mapping))]
                      = cell_value(row[idx])

\* what the code does with a blank header: it is looked up as the empty string
C15_BlankIsEmptyName ==
  UnifiedOne =>
    \A i \in 1..Len(TheWorkbook.worksheets) :
      \A idx \in 1..Len(TheWorkbook.worksheets[i].header) :
        ~Truthy(TheWorkbook.worksheets[i].header[idx]) =>
          locals[1].idx2dest[i][idx] = Get(mapping, <<>>, <<>>)

\* the greatest element of a non-empty set of column indexes
Highest(S) == CHOOSE x \in S : \A y \in S : y <= x

\* some sheet has two source columns with one non-empty destination
Collision(wb) ==
  \E i \in 1..Len(wb.worksheets) : \E a, b \in 1..Len(wb.worksheets[i].header) :
    /\ a < b
    /\ header_dest(OrEmpty(wb.worksheets[i].header[a]).s, mapping) # <<>>
    /\ header_dest(OrEmpty(wb.worksheets[i].header[a]).s, mapping)
         = header_dest(OrEmpty(wb.worksheets[i].header[b]).s, mapping)

C18_PassesAgree ==
  (pc = "unified" /\ Len(files) = 1 /\ TheWorkbook.ok /\ ~headers_raise(TheWorkbook)) =>
    /\ \A i \in 1..Len(TheWorkbook.worksheets) :
         \A idx \in 1..Len(TheWorkbook.worksheets[i].header) :
           LET d == locals[1].idx2dest[i][idx]
           IN /\ d = header_dest(OrEmpty(TheWorkbook.worksheets[i].header[idx]).s, mapping)
              /\ d # <<>> => InSeq(d, locals[1].headers_final)
    /\ df.kind = "df"

\* a header found in the mapping under its canonical form only, in both passes
C18_Witness ==
  /\ UnifiedOne
  /\ mapping = (<<"f", "e">> :> <<"r">>)
  /\ TheWorkbook.worksheets[1].header = <<H_FeAcc>>
  /\ locals[1].idx2dest[1] = << <<"r">> >>
  /\ locals[1].headers_final = << <<"r">> >>
  /\ Len(df.rows) >= 1

----------------------------------------------------------------------------
(* Properties of unify_files *)

UnifiedFiles == pc = "unified" /\ Len(files) > 1 /\ df.kind = "df"

DataRows(wb) == Len(Concat([i \in 1..Len(wb.worksheets) |-> wb.worksheets[i].rows]))

RECURSIVE SumRows(_)
SumRows(fs) == IF fs = <<>> THEN 0 ELSE DataRows(Head(fs).data) + SumRows(Tail(fs))

\* the file every output row came from, in output order
FileOfRow ==
  Concat([f \in 1..Len(files) |-> [r \in 1..DataRows(files[f].data) |-> f]])

\* the name without directory and without the .xlsx extension of an upload
NameWithoutExtension(name) ==
  CASE name = N_a -> <<"a">>
    [] name = N_b -> <<"b", ".", "1">>

\* C6: unify_files returns as many rows as all sheets of all workbooks have
\* data rows, in file order, with an archivo_origen column that holds on every
\* row the filename stem of the workbook the row came from.
C6_MultiFile ==
  UnifiedFiles =>
    /\ Len(df.rows) = SumRows(files)
    /\ InSeq(archivo_origen, df.columns)
    /\ \A k \in 1..Len(df.rows) :
         /\ Len(df.rows[k]) = Len(df.columns)
         /\ df.rows[k][IndexOf(df.columns, archivo_origen)]
              = StrV(NameWithoutExtension(files[FileOfRow[k]].name))

\* two workbooks with 1 and 2 data rows gave 3 rows, each with its own stem
C6_Witness ==
  /\ UnifiedFiles
  /\ Len(files) = 2
  /\ DataRows(files[1].data) = 1
  /\ DataRows(files[2].data) = 2
  /\ files[1].name = N_b
  /\ files[2].name = N_a
  /\ Len(df.rows) = 3
  /\ df.rows[1][IndexOf(df.columns, archivo_origen)] = StrV(<<"b", ".", "1">>)
  /\ df.rows[3][IndexOf(df.columns, archivo_origen)] = StrV(<<"a">>)

----------------------------------------------------------------------------
(* Properties of add_text_column *)

HasUrlColumn == \E j \in 1..Len(df.columns) : canonicalize(df.columns[j]) = url_noticia

\* the URL cell of row r: the cell under the first URL_Noticia-equivalent column
UrlCell(r) ==
  df.rows[r][CHOOSE j \in 1..Len(df.columns) :
               /\ canonicalize(df.columns[j]) = url_noticia
               /\ \A o \in 1..(j - 1) : canonicalize(df.columns[o]) # url_noticia]

\* the records of the document whose URL holds the code of row r's URL cell
Matching(r) ==
  {q \in 1..Len(xml_bytes.noticias) :
     /\ code_search(FormatV(UrlCell(r))).found
     /\ code_search(xml_bytes.noticias[q].Url_Noticia).found
     /\ code_search(xml_bytes.noticias[q].Url_Noticia).code = code_search(FormatV(UrlCell(r))).code}

\* C7: after join_text on a table with a URL_Noticia-equivalent column and a
\* non-empty document, every row's texto is the text of the record with the
\* row's code, and the empty string when the row has no code or no record
\* matches.
C7_JoinCorrect ==
  (pc = "joined" /\ HasUrlColumn /\ xml_bytes.kind = "xml") =>
    /\ merged.kind = "df"
    /\ InSeq(texto, merged.columns)
    /\ Len(merged.rows) = Len(df.rows)
    /\ \A r \in 1..Len(merged.rows) :
         LET t == merged.rows[r][IndexOf(merged.columns, texto)]
         IN IF Matching(r) = {} THEN t = EmptyStr
            ELSE \E q \in Matching(r) : t = StrV(Strip(xml_bytes.noticias[q].FullText, Whitespace))

\* C8: join_text with a non-empty document and a URL_Noticia-equivalent column
\* returns the original columns in their order followed by one texto column,
\* whatever the columns are called; without document or without such a column
\* it returns the table unchanged.
C8_FrameEffect ==
  pc = "joined" =>
    IF xml_bytes.kind = "empty" \/ ~HasUrlColumn THEN merged = df
    ELSE xml_bytes.kind = "xml" =>
           /\ merged.kind = "df"
           /\ merged.columns = Append(df.columns, texto)

\* the no-op half of C8, which the code keeps
C8_Unchanged ==
  (pc = "joined" /\ (xml_bytes.kind = "empty" \/ ~HasUrlColumn)) => merged = df

\* what the code does where C7 and C8 fail: a document without any coded
\* record ends in KeyError, and so does a table that has a codigo column
C7_C8_Failures ==
  (pc = "joined" /\ HasUrlColumn /\ xml_bytes.kind = "xml") =>
    /\ noticia_rows(xml_bytes.noticias) = <<>> => merged = Raised("KeyError")
    /\ (noticia_rows(xml_bytes.noticias) # <<>> /\ InSeq(codigo, df.columns))
         => merged = Raised("KeyError")
    /\ (noticia_rows(xml_bytes.noticias) # <<>> /\ InSeq(texto, df.columns))
         => merged.kind = "df" /\ ~InSeq(texto, merged.columns)
    /\ (noticia_rows(xml_bytes.noticias) # <<>> /\ InSeq(codigo_link, df.columns))
         => merged.kind = "df" /\ ~InSeq(codigo_link, merged.columns)

\* the cells of row r under the columns the join does not overwrite and drop
KeptCells(r) ==
  LET keep == {j \in 1..Len(df.columns) : df.columns[j] # codigo_link}
      nth(i) == CHOOSE j \in keep : Cardinality({o \in keep : o < j}) = i - 1
  IN [i \in 1..Cardinality(keep) |-> df.rows[r][nth(i)]]

\* C22: whenever join_text returns a table, the table has as many rows as the
\* input, and its r-th row holds the cells of the r-th input row, also when
\* several records of the document share one code.
C22_RowsPreserved ==
  (pc = "joined" /\ merged.kind = "df") =>
    /\ Len(merged.rows) = Len(df.rows)
    /\ \A r \in 1..Len(df.rows) :
         IF xml_bytes.kind = "empty" \/ ~HasUrlColumn
           THEN merged.rows[r] = df.rows[r]
           ELSE SubSeq(merged.rows[r], 1, Len(KeptCells(r))) = KeptCells(r)

\* a two-row table joined with a document in which two records share the code
\* of the second row: two rows came back, the second with the first record's
\* text
C22_Witness ==
  /\ pc = "joined"
  /\ xml_bytes = Xml(<<R_12, R_12bis>>)
  /\ Len(df.rows) = 2
  /\ HasUrlColumn
  /\ UrlCell(1) = U_7link
  /\ UrlCell(2) = U_12
  /\ merged.kind = "df"
  /\ InSeq(texto, merged.columns)
  /\ Len(merged.rows) = 2
  /\ merged.rows[1][IndexOf(merged.columns, texto)] = NaN
  /\ merged.rows[2][IndexOf(merged.columns, texto)] = StrV(<<"Hello">>)

----------------------------------------------------------------------------
(* Properties of the mapping administration *)

Protected == {lp, simbiu}

\* C9: a stored mapping of slug lp or simbiu is never deleted: a delete
\* request that resolves to one of the two slugs is rejected and leaves the
\* mapping store unchanged.
C9_ProtectedKept ==
  [][ /\ \A s \in Protected : s \in DOMAIN mappings_dir => s \in DOMAIN mappings_dir'
      /\ (request'.action = "delete" /\ slugify(request'.name) \in Protected)
           => mappings_dir' = mappings_dir
    ]_vars

\* C10: a clone of a stored mapping onto a destination slug that already is a
\* mapping type fails with the conflict message and changes no mapping of the
\* store; so does a create that names an existing slug.
C10_ConflictNoOp ==
  [][ /\ (request'.action = "clone"
            /\ slugify(request'.src) \in DOMAIN mappings_dir
            /\ slugify(Strip(request'.name, Whitespace)) \in list_mappings)
           => (flashed' = "Ya existe un tipo con ese nombre" /\ mappings_dir' = mappings_dir)
      /\ (request'.action = "create"
            /\ slugify(Strip(request'.name, Whitespace)) \in list_mappings)
           => (flashed' = "Ese tipo ya existe" /\ mappings_dir' = mappings_dir)
    ]_vars

\* the parts of C9 and C10 the code keeps: a delete of the names lp and simbiu
\* as written, a clone onto a stored file and a create of a listed type change
\* nothing
C9_C10_Kept ==
  [][ /\ (request'.action = "delete" /\ Strip(request'.name, Whitespace) \in Protected)
           => mappings_dir' = mappings_dir
      /\ (request'.action = "clone"
            /\ slugify(Strip(request'.name, Whitespace)) \in DOMAIN mappings_dir)
           => mappings_dir' = mappings_dir
      /\ (request'.action = "create"
            /\ slugify(Strip(request'.name, Whitespace)) \in list_mappings)
           => (flashed' = "Ese tipo ya existe" /\ mappings_dir' = mappings_dir)
    ]_vars

----------------------------------------------------------------------------
(* Properties of canonicalize *)

\* C13: canonicalize is idempotent: applied to its own result it returns that
\* result, canonicalize(canonicalize(x)) = canonicalize(x), for every string x.
C13_Idempotent ==
  (pc = "canon" /\ Len(canon_out) = 2) => canon_out[2] = canon_out[1]

\* a string with upper case, a diacritic, an underscore and another symbol
\* was changed by the first application and kept by the second
C13_Witness ==
  /\ pc = "canon"
  /\ Len(canon_out) = 2
  /\ canon_in = <<"F", "*", "_", "E'">>
  /\ canon_out[1] = <<"f", "_", "e">>
  /\ canon_out[2] = <<"f", "_", "e">>

----------------------------------------------------------------------------
(* Properties of build_text_df *)

\* the records of the document whose URL field matches the code pattern
Coded == {q \in 1..Len(xml_bytes.noticias) : code_search(xml_bytes.noticias[q].Url_Noticia).found}

CodeOf(q) == code_search(xml_bytes.noticias[q].Url_Noticia).code

\* C17: for a parseable document build_text_df returns one (code, text) entry
\* per distinct code among the records whose URL matches /index/1/<digits> or
\* /VerNoticia/<digits>, nothing for the other records, and an empty result,
\* not an error, when no record matches or there are no records.
C17_OnePerCode ==
  (pc = "texted" /\ xml_bytes.kind = "xml") =>
    /\ extracted.kind = "df"
    /\ Len(extracted.rows) = Cardinality({CodeOf(q) : q \in Coded})
    /\ \A q \in Coded : \E r \in 1..Len(extracted.rows) : extracted.rows[r][1] = StrV(CodeOf(q))
    /\ \A r \in 1..Len(extracted.rows) :
         \E q \in Coded :
           /\ extracted.rows[r][1] = StrV(CodeOf(q))
           /\ extracted.rows[r][2] = StrV(Strip(xml_bytes.noticias[q].FullText, Whitespace))

\* three records, two with code 12 and one without code, gave one entry
C17_Witness ==
  /\ pc = "texted"
  /\ xml_bytes = Xml(<<R_12, R_nocode, R_12bis>>)
  /\ extracted.kind = "df"
  /\ extracted.rows = << <<StrV(<<"1", "2">>), StrV(<<"Hello">>)>> >>

\* a document whose records carry no code gave an empty result
C17_EmptyResult ==
  (pc = "texted" /\ xml_bytes.kind = "xml" /\ Coded = {}) =>
    extracted = DataFrame(<<>>, <<>>)

----------------------------------------------------------------------------
(* Properties of the web application *)

\* the session holds no user marker
NoUser == "user" \notin DOMAIN session

\* the session holds the column listing of an upload
HasColumns == "cols_per_sheet" \in DOMAIN session /\ session["cols_per_sheet"] # <<>>

ErrorMessage == "Ocurrio un error al procesar los archivos"

ValidationMessages ==
  {"Sube un archivo Excel (.xlsx) valido.", "Para planillas Simbiu debes subir tambien el XML."}

\* what reading the uploaded workbooks, unifying them and joining the text
\* gives for the session's upload and the posted form
Outcome(form) ==
  unification(Get(session, "files_xlsx", <<>>), form_mapping(form),
              Get(session, "mapping_name", lp), Get(session, "file_xml", NoXml))

\* C11: when reading a workbook, unifying or joining the text fails during a
\* unify request, no table is returned, no processed file is written, no
\* history record is appended and the user is shown an error; a processed file
\* is written only by a unify request whose every step succeeded.
C11_FailureAborts ==
  [][ /\ (pc = "web" /\ request'.action = "unify" /\ ~NoUser /\ HasColumns
            /\ Outcome(request'.form).kind = "error")
          => /\ response'.kind # "file"
             /\ processed' = processed
             /\ history' = history
             /\ flashed' = ErrorMessage
      /\ processed' # processed
          => /\ request'.action = "unify"
             /\ Outcome(request'.form).kind = "df"
             /\ response' .kind = "file"
             /\ \E f \in DOMAIN processed' \ DOMAIN processed :
                  /\ DOMAIN processed' = DOMAIN processed \cup {f}
                  /\ processed'[f] = Outcome(request'.form)
                  /\ \A g \in DOMAIN processed : processed'[g] = processed[g] ]_vars

\* after one unification was recorded, a simbiu unification with a document
\* that is not well-formed was aborted with the error shown
C11_Witness ==
  /\ pc = "responded"
  /\ request.action = "unify"
  /\ Get(session, "mapping_name", lp) = simbiu
  /\ Get(session, "file_xml", NoXml) = Malformed
  /\ flashed = ErrorMessage
  /\ response = Redirect("mapping")
  /\ Len(history) = 1
  /\ DOMAIN processed = {"u1"}

\* the name of an upload ends in .xml, whatever the case
IsXmlName(name) == name # <<>> /\ EndsWith(Lower(name), <<".", "xml">>)

\* C12: an upload that selects simbiu and carries no .xml document is
\* rejected with a validation message, changes nothing in the session and
\* does not go on to the mapping step; so whenever the session's mapping name
\* is simbiu the session holds a document, stored by the upload that set the
\* name.
C12_SimbiuNeedsXml ==
  /\ []((("mapping_name" \in DOMAIN session) /\ session["mapping_name"] = simbiu)
          => "file_xml" \in DOMAIN session)
  /\ [][ /\ (pc = "web" /\ request'.action = "upload" /\ ~NoUser
               /\ slugify(request'.name) = simbiu /\ ~IsXmlName(request'.src))
             => /\ session' = session
                /\ flashed' \in ValidationMessages
                /\ response' = Redirect("home")
         /\ (request'.action = "upload" /\ session' # session
               /\ session'["mapping_name"] = simbiu)
             => /\ IsXmlName(request'.src)
                /\ session'["file_xml"] = request'.doc
         /\ (request'.action # "upload" /\ "mapping_name" \in DOMAIN session')
             => /\ "mapping_name" \in DOMAIN session
                /\ session'["mapping_name"] = session["mapping_name"]
                /\ Get(session', "file_xml", NoXml) = Get(session, "file_xml", NoXml) ]_vars

\* a simbiu upload without document was rejected in a session that holds an
\* earlier lp upload
C12_Witness ==
  /\ pc = "responded"
  /\ request.action = "upload"
  /\ slugify(request.name) = simbiu
  /\ request.src = <<>>
  /\ response = Redirect("home")
  /\ flashed = "Para planillas Simbiu debes subir tambien el XML."
  /\ HasColumns
  /\ session["mapping_name"] = lp

ProtectedActions ==
  {"home", "upload", "mapping", "save", "unify", "create", "clone", "delete",
   "download", "historial"}

\* C20: a request to a protected route in a session without user only
\* redirects to the login page: it stores no upload, saves no mapping, unifies
\* nothing, creates, clones or deletes no mapping, sends no file and shows no
\* history.  The user marker is set only by a login with the right
\* credentials, and logout removes it.
C20_AuthGate ==
  [][ /\ (pc = "web" /\ NoUser /\ request'.action \in ProtectedActions)
          => /\ response' = Redirect("login")
             /\ session' = session
             /\ mappings_dir' = mappings_dir
             /\ history' = history
             /\ processed' = processed
             /\ flashed' = flashed
      /\ (pc = "web" /\ request'.action \notin {"login", "logout"})
          => request'.action \in ProtectedActions
      /\ (NoUser /\ ~NoUser')
          => /\ request'.action = "login"
             /\ request'.name = <<"AnalisisLP">>
             /\ request'.src = <<"AnalisisLP2025">>
             /\ session'["user"] = "AnalisisLP"
      /\ (pc = "web" /\ request'.action = "logout") => NoUser' ]_vars

\* a unify request after logout, in a session that still holds an upload,
\* was redirected to the login page
C20_Witness ==
  /\ pc = "responded"
  /\ NoUser
  /\ request.action = "unify"
  /\ HasColumns
  /\ response = Redirect("login")

\* the column listing the session holds, if any
ColumnListing(s) == Get(s, "cols_per_sheet", <<>>)

\* C21: a save or unify request in a session without column listing redirects
\* to the home page and saves no mapping, writes no file and records nothing;
\* a column listing enters the session only by an upload that succeeded, as
\* the columns of its first workbook.  A unification that succeeded leaves the
\* session empty, one that failed leaves the session as it was, with the
\* mapping page as the response.
C21_WorkflowOrder ==
  [][ /\ (pc = "web" /\ request'.action \in {"save", "unify"} /\ ~NoUser /\ ~HasColumns)
          => /\ response' = Redirect("home")
             /\ mappings_dir' = mappings_dir
             /\ history' = history
             /\ processed' = processed
             /\ session' = session
             /\ flashed' = flashed
      /\ (pc = "web" /\ request'.action \in {"save", "unify"}
            /\ (mappings_dir' # mappings_dir \/ processed' # processed \/ history' # history))
          => HasColumns
      /\ (HasColumns' /\ ColumnListing(session') # ColumnListing(session))
          => /\ request'.action = "upload"
             /\ response' = Redirect("mapping")
             /\ session'["files_xlsx"][1].data.ok
             /\ ColumnListing(session') = workbook_columns(session'["files_xlsx"][1].data)
      /\ (pc = "web" /\ request'.action = "unify" /\ response'.kind = "file")
          => /\ HasColumns
             /\ DOMAIN session' = {}
      /\ (pc = "web" /\ request'.action = "unify" /\ ~NoUser /\ HasColumns
            /\ Outcome(request'.form).kind = "error")
          => /\ session' = session
             /\ response' = Redirect("mapping")
      /\ (pc = "web" /\ request'.action = "save" /\ ~NoUser /\ HasColumns)
          => /\ session' = session
             /\ response' = Redirect("mapping") ]_vars

\* after a unification that succeeded and a new login, a unify request without
\* a new upload was redirected to the home page
C21_Witness ==
  /\ pc = "responded"
  /\ request.action = "unify"
  /\ ~NoUser
  /\ DOMAIN session = {"user"}
  /\ response = Redirect("home")
  /\ Len(history) = 1
  /\ DOMAIN processed = {"u1"}

----------------------------------------------------------------------------
(* Properties of concurrent unify requests *)

AllDone == pc = "history" /\ \A w \in Workers : workers[w].pc = "done"

\* C19: when two unification requests complete concurrently, the history
\* afterwards holds the records of both, whatever the order in which their
\* add_history calls interleave.
C19_NoLostRecord ==
  AllDone =>
    \A w \in Workers : \E r \in 1..Len(history) : history[r].archivo = Uuids[w]

\* what the interleaving leaves when both requests read before either wrote:
\* the processed files of both, the record of one
C19_LostUpdate ==
  AllDone =>
    /\ DOMAIN processed = {Uuids[w] : w \in Workers}
    /\ \E w \in Workers : \E r \in 1..Len(history) : history[r].archivo = Uuids[w]

====
